---- MODULE Spec2Model ----
(***************************************************************************)
(* A model of xdxf2slob's XDXF class (src/xdxf2slob/__init__.py): the      *)
(* streaming parser XDXF.parse, the article renderer XDXF._text with its   *)
(* tag handlers, the title builder XDXF._mktitle and the abbreviation      *)
(* table builder XDXF._mkabbrs.                                            *)
(*                                                                         *)
(* Python str values are sequences of tokens (a token is a TLA+ string     *)
(* holding one or more characters); None and a raised TypeError are two    *)
(* reserved one-token sequences.  ElementTree elements live in a heap (a   *)
(* sequence of nodes, an element is its index) so that aliasing, deepcopy  *)
(* and in-place mutation are what they are in the code.                    *)
(***************************************************************************)
EXTENDS Integers, Sequences, FiniteSets, TLC

VARIABLES
    pc,                 \* position of the generator XDXF.parse
    n,                  \* number of iterparse end events consumed so far
    skip_article_title, \* XDXF.skip_article_title
    remove_newline,     \* XDXF.remove_newline
    abbreviations,      \* the local `abbreviations` of XDXF.parse
    out,                \* the items yielded so far, in order
    src,                \* the end events consumed so far, in order
    warnings,           \* number of logging.warn calls so far
    pending,            \* value a suspended handler still has to yield
    last                \* what the last step computed (observation only)

vars == <<pc, n, skip_article_title, remove_newline, abbreviations, out,
          src, warnings, pending, last>>

---------------------------------------------------------------------------
(* Python values *)

None == <<"None">>
TypeError == <<"TypeError">>

\* bool(s) for s a str or None
Truthy(s) == s # None /\ s # <<>>

\* `x or ''`
OrEmpty(s) == IF Truthy(s) THEN s ELSE <<>>

\* str + str; adding None to a str raises TypeError
Plus(a, b) == IF a = TypeError \/ b = TypeError \/ a = None \/ b = None
              THEN TypeError ELSE a \o b

\* a dict is the sequence of its <<key, value>> items in insertion order
DictHas(d, k) == \E i \in 1..Len(d) : d[i][1] = k

DictGet(d, k, default) ==
    IF DictHas(d, k) THEN d[CHOOSE i \in 1..Len(d) : d[i][1] = k][2]
    ELSE default

DictSet(d, k, v) ==
    IF DictHas(d, k)
    THEN [i \in 1..Len(d) |-> IF d[i][1] = k THEN <<k, v>> ELSE d[i]]
    ELSE Append(d, <<k, v>>)

RECURSIVE Flatten(_)
Flatten(ss) == IF ss = <<>> THEN <<>> ELSE Head(ss) \o Flatten(Tail(ss))

Whitespace == {" ", "\n", "\t"}

\* str.lstrip(): drops the leading whitespace.  Tokens of trailing texts are
\* either whitespace or start with a non-whitespace character.
RECURSIVE lstrip(_)
lstrip(s) == IF s # <<>> /\ Head(s) \in Whitespace THEN lstrip(Tail(s)) ELSE s

\* str.lower() on the tag names of the model
lower(tag) == CASE tag = "AR" -> "ar"
                [] tag = "K" -> "k"
                [] tag = "ABR_DEF" -> "abr_def"
                [] tag = "SU" -> "su"
                [] OTHER -> tag

---------------------------------------------------------------------------
(* ElementTree *)

\* an element as the document describes it
E(tag, attrib, text, tail, children) ==
    [tag |-> tag, attrib |-> attrib, text |-> text, tail |-> tail,
     children |-> children]

\* iterparse builds the element and its subtree; the element is Len(h) + 1
RECURSIVE Build(_, _), BuildKids(_, _, _, _)
Build(h, t) ==
    BuildKids(Append(h, [t EXCEPT !.children = <<>>]), Len(h) + 1, t.children, 1)

BuildKids(h, parent, kids, i) ==
    IF i > Len(kids) THEN h
    ELSE LET h1 == Build(h, kids[i])
         IN BuildKids([h1 EXCEPT ![parent].children = Append(@, Len(h) + 1)],
                      parent, kids, i + 1)

\* the subtree of element e, as a document would describe it
RECURSIVE ToTree(_, _)
ToTree(h, e) ==
    [h[e] EXCEPT !.children = [i \in 1..Len(h[e].children) |->
                                  ToTree(h, h[e].children[i])]]

\* Element.__deepcopy__: a fresh copy of every node of the subtree (tag,
\* attrib, text, tail and children); the copy of the element is Len(h) + 1
RECURSIVE CopyTree(_, _), CopyKids(_, _, _, _)
CopyTree(h, e) ==
    CopyKids(Append(h, [h[e] EXCEPT !.children = <<>>]), Len(h) + 1,
             h[e].children, 1)

CopyKids(h, parent, kids, i) ==
    IF i > Len(kids) THEN h
    ELSE LET h1 == CopyTree(h, kids[i])
         IN CopyKids([h1 EXCEPT ![parent].children = Append(@, Len(h) + 1)],
                     parent, kids, i + 1)

\* copy.copy(element) in the place of deepcopy: a new root node that shares
\* the children
shallowcopy(h, e) == [heap |-> Append(h, h[e]), element |-> Len(h) + 1]

\* copy.deepcopy(element)
deepcopy(h, e) == [heap |-> CopyTree(h, e), element |-> Len(h) + 1]

\* Element.findall(tag): the direct children with that tag, in document order
findall(h, e, tag) == SelectSeq(h[e].children, LAMBDA c : h[c].tag = tag)

\* Element.find(tag): the first such child, or 0 for None
find(h, e, tag) ==
    IF findall(h, e, tag) = <<>> THEN 0 ELSE Head(findall(h, e, tag))

\* Element.iter(): the element itself, then its descendants, in document order
RECURSIVE iter(_, _), IterKids(_, _, _)
iter(h, e) == <<e>> \o IterKids(h, h[e].children, 1)

IterKids(h, kids, i) ==
    IF i > Len(kids) THEN <<>>
    ELSE iter(h, kids[i]) \o IterKids(h, kids, i + 1)

\* Element.remove(child)
remove(h, e, child) ==
    [h EXCEPT ![e].children = SelectSeq(@, LAMBDA c : c # child)]

\* Element.set(key, value)
set(h, e, key, value) == [h EXCEPT ![e].attrib = DictSet(@, key, value)]

\* bool(element): an element with no children is false
ElementTruthy(h, e) == e # 0 /\ Len(h[e].children) # 0

---------------------------------------------------------------------------
(* module constants *)

ARTICLE_CONTENT_TYPE == "text/html;charset=utf-8"

ARTICLE_TEMPLATE ==
    << "<script src=\"~/js/styleswitcher.js\"></script>",
       "<link rel=\"stylesheet\" href=\"~/css/default.css\" type=\"text/css\">",
       "<link rel=\"alternate stylesheet\" href=\"~/css/night.css\" type=\"text/css\" title=\"Night\">" >>

VISUAL_TAGS == {"ar", "k", "opt", "nu", "def", "pos", "tense", "tr", "dtrn",
                "kref", "rref", "iref", "abr", "c", "ex", "co", "su"}

BLOCK_TAGS == {"k"}

Tag(name, value) == [name |-> name, value |-> value]

Content(text, keys, type) == [text |-> text, keys |-> keys, type |-> type]

---------------------------------------------------------------------------
(* tag handlers *)

_tag_handler_ar(h, e) ==
    [set(h, e, "class", <<h[e].tag>>) EXCEPT ![e].tag = "div"]

_tag_handler_c(h, child) ==
    LET color == DictGet(h[child].attrib, "c", <<>>)
        h1 == [h EXCEPT ![child].tag = "span", ![child].attrib = <<>>]
    IN IF Truthy(color)
       THEN set(h1, child, "style", <<"color: ">> \o color \o <<";">>)
       ELSE h1

_tag_handler_iref(h, child) == [h EXCEPT ![child].tag = "a"]

_tag_handler_kref(h, child) ==
    set([h EXCEPT ![child].tag = "a"], child, "href", h[child].text)

_tag_handler_su(h, child) ==
    set([h EXCEPT ![child].tag = "div"], child, "class", <<"su">>)

_tag_handler_def(h, child) == [h EXCEPT ![child].tag = "blockquote"]

_tag_handler_abr(h, child, abbrs) ==
    LET h1 == [h EXCEPT ![child].tag = "abbr"]
        abr == h[child].text
    IN IF DictHas(abbrs, abr)
       THEN set(h1, child, "title", DictGet(abbrs, abr, None))
       ELSE h1

default_tag_handler(h, child) ==
    IF h[child].tag \in VISUAL_TAGS
    THEN [set(h, child, "class", <<h[child].tag>>) EXCEPT
             ![child].tag = IF h[child].tag \in BLOCK_TAGS THEN "div" ELSE "span"]
    ELSE h

\* the handler getattr finds for an element: '_tag_handler_' + tag.lower(),
\* or the default handler
HandlerOf(h, e) ==
    IF lower(h[e].tag) \in {"ar", "c", "iref", "kref", "su", "def", "abr"}
    THEN lower(h[e].tag) ELSE "default"

_transform_element(h, element, abbrs) ==
    LET handler == HandlerOf(h, element)
    IN CASE handler = "ar" -> _tag_handler_ar(h, element)
         [] handler = "c" -> _tag_handler_c(h, element)
         [] handler = "iref" -> _tag_handler_iref(h, element)
         [] handler = "kref" -> _tag_handler_kref(h, element)
         [] handler = "su" -> _tag_handler_su(h, element)
         [] handler = "def" -> _tag_handler_def(h, element)
         [] handler = "abr" -> _tag_handler_abr(h, element, abbrs)
         [] OTHER -> default_tag_handler(h, element)

---------------------------------------------------------------------------
(* XDXF._mkabbrs *)

\* the inner loop: for key in abrdef.findall('k'): abbrs[key.text] = value_txt
RECURSIVE MkAbbrsKeys(_, _, _, _, _)
MkAbbrsKeys(h, keys, i, value_txt, abbrs) ==
    IF i > Len(keys) THEN abbrs
    ELSE MkAbbrsKeys(h, keys, i + 1, value_txt,
                     DictSet(abbrs, h[keys[i]].text, value_txt))

\* the outer loop: for abrdef in element
RECURSIVE MkAbbrsLoop(_, _, _, _)
MkAbbrsLoop(h, defs, i, abbrs) ==
    IF i > Len(defs) THEN abbrs
    ELSE LET abrdef == defs[i]
             value == find(h, abrdef, "v")
         IN MkAbbrsLoop(h, defs, i + 1,
                IF lower(h[abrdef].tag) = "abr_def" /\ ElementTruthy(h, value)
                THEN MkAbbrsKeys(h, findall(h, abrdef, "k"), 1,
                                 h[value].text, abbrs)
                ELSE abbrs)

_mkabbrs(h, element) == MkAbbrsLoop(h, h[element].children, 1, <<>>)

---------------------------------------------------------------------------
(* etree.tostring, str.replace, str.encode, urllib.parse.quote *)

\* ElementTree's _escape_cdata / _escape_attrib, token by token
EscapeCdata(s) ==
    [i \in 1..Len(s) |-> CASE s[i] = "&" -> "&amp;"
                            [] s[i] = "<" -> "&lt;"
                            [] s[i] = ">" -> "&gt;"
                            [] OTHER -> s[i]]

EscapeAttrib(s) ==
    [i \in 1..Len(s) |-> CASE s[i] = "&" -> "&amp;"
                            [] s[i] = "<" -> "&lt;"
                            [] s[i] = ">" -> "&gt;"
                            [] s[i] = "\"" -> "&quot;"
                            [] s[i] = "\n" -> "&#10;"
                            [] s[i] = "\t" -> "&#09;"
                            [] OTHER -> s[i]]

SerializeAttrib(attrib) ==
    Flatten([i \in 1..Len(attrib) |->
                <<" ", attrib[i][1], "=\"">> \o EscapeAttrib(attrib[i][2])
                    \o <<"\"">>])

\* ElementTree._serialize_xml with short_empty_elements
RECURSIVE SerializeXml(_, _)
SerializeXml(h, e) ==
    LET node == h[e]
        start == <<"<", node.tag>> \o SerializeAttrib(node.attrib)
        kids == Flatten([i \in 1..Len(node.children) |->
                            SerializeXml(h, node.children[i])])
    IN (IF Truthy(node.text) \/ Len(node.children) > 0
        THEN start \o <<">">> \o EscapeCdata(OrEmpty(node.text)) \o kids
                   \o <<"</", node.tag, ">">>
        ELSE start \o <<" />">>)
       \o EscapeCdata(OrEmpty(node.tail))

\* etree.tostring(element, encoding='unicode'): an attribute whose value is
\* None cannot be serialized and raises TypeError
tostring(h, element) ==
    IF \E i \in 1..Len(iter(h, element)) :
          \E a \in 1..Len(h[iter(h, element)[i]].attrib) :
             h[iter(h, element)[i]].attrib[a][2] = None
    THEN TypeError
    ELSE SerializeXml(h, element)

\* txt.replace('\n', ' ')
ReplaceNewline(s) == [i \in 1..Len(s) |-> IF s[i] = "\n" THEN " " ELSE s[i]]

\* str.encode('utf8'): an ASCII token is its own bytes, a non-ASCII
\* character becomes its bytes
encode(s) ==
    Flatten([i \in 1..Len(s) |->
                IF s[i] = "é" THEN <<"0xC3", "0xA9">> ELSE <<s[i]>>])

\* the characters quote never escapes, among the tokens of the model
Unreserved == {"F", "n", "a", "_", ".", "-", "~"}

\* urllib.parse.quote(bytes, safe=''): every byte outside the unreserved set
\* becomes %XX
quote(b) ==
    [i \in 1..Len(b) |-> CASE b[i] \in Unreserved -> b[i]
                            [] b[i] = " " -> "%20"
                            [] b[i] = "/" -> "%2F"
                            [] b[i] = "0xC3" -> "%C3"
                            [] b[i] = "0xA9" -> "%A9"]

---------------------------------------------------------------------------
(* XDXF._text *)

\* lines 143-147: the trailing texts of the k children, concatenated
RECURSIVE KTails(_, _, _)
KTails(h, ks, i) ==
    IF i > Len(ks) THEN <<>>
    ELSE (IF Truthy(h[ks[i]].tail) THEN h[ks[i]].tail ELSE <<>>)
         \o KTails(h, ks, i + 1)

RECURSIVE RemoveAll(_, _, _, _)
RemoveAll(h, element, ks, i) ==
    IF i > Len(ks) THEN h
    ELSE RemoveAll(remove(h, element, ks[i]), element, ks, i + 1)

\* lines 142-149 with `element.text = tail` for line 149
StripTitleTextLost(h, element) ==
    LET ks == findall(h, element, "k")
    IN [RemoveAll(h, element, ks, 1) EXCEPT
           ![element].text = lstrip(KTails(h, ks, 1))]

\* lines 142-149
StripTitle(h, element) ==
    LET ks == findall(h, element, "k")
        tail == lstrip(KTails(h, ks, 1))
        h1 == RemoveAll(h, element, ks, 1)
    IN [h1 EXCEPT ![element].text =
           IF Truthy(h[element].text) THEN tail \o h[element].text ELSE tail]

\* line 150, then lines 151-152: the calls of _transform_element, in order
TransformCalls(h, element) == <<element>> \o iter(h, element)

RECURSIVE TransformAll(_, _, _, _)
TransformAll(h, calls, i, abbrs) ==
    IF i > Len(calls) THEN h
    ELSE TransformAll(_transform_element(h, calls[i], abbrs), calls, i + 1, abbrs)

\* the handler each call dispatches to, given the tags at the time of the call
RECURSIVE HandlerTrace(_, _, _, _)
HandlerTrace(h, calls, i, abbrs) ==
    IF i > Len(calls) THEN <<>>
    ELSE <<HandlerOf(h, calls[i])>>
         \o HandlerTrace(_transform_element(h, calls[i], abbrs), calls, i + 1, abbrs)

_text(h, xdxf_element, abbrs, skip, newline) ==
    LET copy == deepcopy(h, xdxf_element)
        element == copy.element
        h1 == IF skip THEN StripTitle(copy.heap, element) ELSE copy.heap
        calls == TransformCalls(h1, element)
        h2 == TransformAll(h1, calls, 1, abbrs)
        txt == tostring(h2, element)
        txt2 == IF newline /\ txt # TypeError THEN ReplaceNewline(txt) ELSE txt
    IN [heap |-> h2,
        element |-> element,
        stripped |-> h1,
        calls |-> calls,
        handlers |-> HandlerTrace(h1, calls, 1, abbrs),
        result |-> IF txt2 = TypeError THEN TypeError
                   ELSE encode(ARTICLE_TEMPLATE \o txt2)]

---------------------------------------------------------------------------
(* XDXF._mktitle and the title expansion of XDXF.parse *)

\* `title += x` / `title = x` of lines 164-167, 171-174, 176-179
AddTo(title, x) == IF Truthy(title) THEN Plus(title, x) ELSE x

RECURSIVE MkTitleLoop(_, _, _, _, _, _)
MkTitleLoop(h, kids, i, title, opt_i, include_opts) ==
    IF title = TypeError THEN TypeError
    ELSE IF i > Len(kids) THEN title
    ELSE LET c == h[kids[i]]
             t1 == IF c.tag = "nu" /\ Truthy(c.tail) THEN AddTo(title, c.tail)
                   ELSE title
             oi == IF c.tag = "opt" THEN opt_i + 1 ELSE opt_i
             t2 == IF c.tag = "opt" /\ oi \in include_opts
                   THEN AddTo(t1, c.text) ELSE t1
             t3 == IF c.tag = "opt" /\ t2 # TypeError /\ Truthy(c.tail)
                   THEN AddTo(t2, c.tail) ELSE t2
         IN MkTitleLoop(h, kids, i + 1, t3, oi, include_opts)

\* _mktitle with `opt_i = 0` for line 161
_mktitle_opt_i_0(h, title_element, include_opts) ==
    MkTitleLoop(h, h[title_element].children, 1, h[title_element].text, 0,
                include_opts)

\* include_opts is the set of the chosen indices
_mktitle(h, title_element, include_opts) ==
    MkTitleLoop(h, h[title_element].children, 1, h[title_element].text, -1,
                include_opts)

\* itertools.combinations(range(lo, n), j), in its (lexicographic) order
RECURSIVE combinations(_, _, _)
combinations(lo, hi, j) ==
    IF j = 0 THEN << <<>> >>
    ELSE IF lo >= hi THEN <<>>
    ELSE LET with == combinations(lo + 1, hi, j - 1)
         IN [i \in 1..Len(with) |-> <<lo>> \o with[i]]
            \o combinations(lo + 1, hi, j)

\* lines 212-213: for j in range(n_opts+1): for comb in combinations(...)
RECURSIVE AllCombs(_, _)
AllCombs(n_opts, j) ==
    IF j > n_opts THEN <<>>
    ELSE combinations(0, n_opts, j) \o AllCombs(n_opts, j + 1)

Range(s) == {s[i] : i \in 1..Len(s)}

\* lines 210-216 with `range(n_opts)` for line 212
ExpandTitleRangeShort(h, title_element) ==
    LET n_opts == Len(SelectSeq(h[title_element].children,
                                LAMBDA c : h[c].tag = "opt"))
        combs == SelectSeq(AllCombs(n_opts, 0), LAMBDA c : Len(c) < n_opts)
    IN IF n_opts # 0
       THEN [i \in 1..Len(combs) |-> _mktitle(h, title_element, Range(combs[i]))]
       ELSE <<_mktitle(h, title_element, {})>>

\* lines 210-216 for one title element: the variants appended to titles
ExpandTitle(h, title_element) ==
    LET n_opts == Len(SelectSeq(h[title_element].children,
                                LAMBDA c : h[c].tag = "opt"))
        combs == AllCombs(n_opts, 0)
    IN IF n_opts # 0
       THEN [i \in 1..Len(combs) |-> _mktitle(h, title_element, Range(combs[i]))]
       ELSE <<_mktitle(h, title_element, {})>>

\* lines 208-216: raised is TRUE when a _mktitle call raised TypeError
MkTitles(h, element) ==
    LET ks == findall(h, element, "k")
        all == Flatten([i \in 1..Len(ks) |-> ExpandTitle(h, ks[i])])
    IN IF \E i \in 1..Len(all) : all[i] = TypeError
       THEN [raised |-> TRUE, titles |-> <<>>]
       ELSE [raised |-> FALSE, titles |-> all]

---------------------------------------------------------------------------
(* bounds and inputs *)

\* the most end events of a document the parser is run on
MaxElements == 4

\* the most children of a title element in the title expansion runs
MaxKids == 2

\* the most children of an article in the rendering runs
MaxChildren == 2

K(text, tail, kids) == E("k", <<>>, text, tail, kids)

Leaf(tag, text, tail) == E(tag, <<>>, text, tail, <<>>)

Ar(text, kids) == E("ar", <<>>, text, None, kids)

\* an abbreviation definition: its keys, then its v element
AbrDef(keys, v) ==
    E("abr_def", <<>>, None, None,
      [i \in 1..Len(keys) |-> Leaf("k", keys[i], None)] \o v)

\* <v>text<i>x</i></v> and <v>text</v>
VRich(text) == <<E("v", <<>>, text, None, <<Leaf("i", <<"x">>, None)>>)>>
VPlain(text) == <<Leaf("v", text, None)>>

Descriptions == {None}

FullNames == {<<"F", " ", "é">>}

RootAttribs == { <<>>, << <<"lang_from", <<"en">> >>, <<"lang_to", <<"ru">> >> >> }

AbbrBlocks ==
    { E("abbreviations", <<>>, None, None,
        <<AbrDef(<< <<"n.">> >>, VRich(<<"noun">>))>>),
      E("abbreviations", <<>>, None, None,
        <<AbrDef(<< <<"v.">>, <<"vb.">> >>, VRich(<<"verb">>)),
          AbrDef(<< <<"adj.">> >>, VPlain(<<"adjective">>)),
          AbrDef(<< <<"x.">> >>, <<>>)>>) }

Articles ==
    { \* <ar><k>cat<opt> (feline)</opt></k> <abr>n.</abr><abr>v.</abr></ar>
      Ar(None, <<K(<<"cat">>, <<" ">>, <<Leaf("opt", <<" (feline)">>, None)>>),
                 Leaf("abr", <<"n.">>, None), Leaf("abr", <<"v.">>, None)>>),
      \* <ar>nokey<abr>n.</abr></ar>
      Ar(<<"nokey">>, <<Leaf("abr", <<"n.">>, None)>>),
      \* <ar><k/>x</ar>
      Ar(None, <<K(None, <<"x">>, <<>>)>>),
      \* <ar><k>a<opt/></k></ar>
      Ar(None, <<K(<<"a">>, None, <<Leaf("opt", None, None)>>)>>),
      \* <ar><kref/></ar>
      Ar(None, <<Leaf("kref", None, None)>>) }

Others == {Leaf("meta_info", None, None)}

\* title elements: every sequence of at most MaxKids children
TitleKids ==
    {Leaf("opt", text, tail) : text \in {None, <<" (feline)">>},
                               tail \in {None, <<"t">>}}
    \cup {Leaf("nu", None, tail) : tail \in {None, <<"n">>}}
    \cup {Leaf("i", <<"y">>, <<"x">>)}

SeqsUpTo(S, max) == UNION {[1..m -> S] : m \in 0..max}

TitleElements ==
    {K(text, None, kids) : text \in {None, <<"cat">>},
                           kids \in SeqsUpTo(TitleKids, MaxKids)}

OtherTitles ==
    {K(<<"b">>, None, <<>>),
     K(<<"c">>, None, <<Leaf("opt", <<"o">>, <<"t">>)>>)}

TitleArticles ==
    {Ar(None, <<>>)}
    \cup {Ar(None, <<t>>) : t \in TitleElements}
    \cup {Ar(None, <<t, u>>) : t \in TitleElements, u \in OtherTitles}
    \cup {Ar(None, <<u, t>>) : t \in TitleElements, u \in OtherTitles}

\* articles to render: every sequence of at most MaxChildren children
TextKids ==
    { K(<<"cat">>, None, <<Leaf("opt", <<" (feline)">>, None)>>),
      K(<<"b">>, <<"\n", " ", "x">>, <<>>),
      K(<<"c">>, <<"y", " ">>, <<>>),
      Leaf("abr", <<"n.">>, <<"\n">>),
      Leaf("kref", None, None),
      E("def", <<>>, None, None,
        <<E("ex", <<>>, <<"e">>, None, <<Leaf("kref", <<"z">>, <<"w">>)>>),
          Leaf("k", <<"inner">>, <<"v">>)>>),
      E("c", << <<"c", <<"red">> >>, <<"d", <<"e">> >> >>, <<"x">>, None, <<>>),
      Leaf("SU", <<"s">>, None),
      Leaf("b", <<"bold">>, None) }

TextArticles ==
    {Ar(text, kids) : text \in {None, <<"r">>},
                      kids \in SeqsUpTo(TextKids, MaxChildren)}

TextTables == { <<>>, << << <<"n.">>, <<"noun">> >> >> }

---------------------------------------------------------------------------
(* XDXF.parse: one action per iteration of the loop over iterparse's end  *)
(* events, by the tag of the element; a handler that yields twice is two  *)
(* actions, the generator being suspended in between.  The element of an   *)
(* event is built in a heap of its own, which the action drops at its end: *)
(* element.clear() (lines 190, 196, 201, 223) releases a subtree that no   *)
(* later iteration reads.  A TypeError raised while an article is rendered *)
(* or its titles are built leaves the generator: pc = "failed".            *)

\* remove_newline is left at its default here; SpecText runs _text with both
Init ==
    /\ pc = "loop"
    /\ n = 0
    /\ skip_article_title \in BOOLEAN
    /\ remove_newline = FALSE
    /\ abbreviations = <<>>
    /\ out = <<>>
    /\ src = <<>>
    /\ warnings = 0
    /\ pending = None
    /\ last = [kind |-> "init"]

\* the item handed over ahead of those already yielded
YieldFirst(items, item) == <<item>> \o items

\* `yield item`
Yield(items, item) == Append(items, item)

\* the next end event of the stream
Consume(kind, element) ==
    /\ pc = "loop"
    /\ n < MaxElements
    /\ n' = n + 1
    /\ src' = Append(src, [kind |-> kind, element |-> element])

Config == <<skip_article_title, remove_newline>>

\* lines 188-190
ParseDescription ==
    \E text \in Descriptions :
        /\ Consume("description", Leaf("description", text, None))
        /\ out' = Yield(out, Tag("copyright", OrEmpty(text)))
        /\ last' = [kind |-> "description"]
        /\ UNCHANGED <<pc, Config, abbreviations, warnings, pending>>

\* lines 192-194: up to the first yield
ParseFullName ==
    \E text \in FullNames :
        /\ Consume("full_name", Leaf("full_name", text, None))
        /\ out' = Yield(out, Tag("label", OrEmpty(text)))
        /\ pending' = OrEmpty(text)
        /\ pc' = "uri"
        /\ last' = [kind |-> "full_name"]
        /\ UNCHANGED <<Config, abbreviations, warnings>>

\* lines 195-196
YieldUri ==
    /\ pc = "uri"
    /\ out' = Yield(out, Tag("uri", quote(encode(pending))))
    /\ pc' = "loop"
    /\ pending' = None
    /\ last' = [kind |-> "uri"]
    /\ UNCHANGED <<n, src, Config, abbreviations, warnings>>

\* lines 198-199: the root closes last
ParseRoot ==
    \E attrib \in RootAttribs :
        /\ Consume("xdxf", E("xdxf", attrib, None, None, <<>>))
        /\ out' = Yield(out, Tag("lang_to", DictGet(attrib, "lang_to", <<>>)))
        /\ pending' = DictGet(attrib, "lang_from", <<>>)
        /\ pc' = "lang_from"
        /\ last' = [kind |-> "xdxf"]
        /\ UNCHANGED <<Config, abbreviations, warnings>>

\* lines 200-201, and the end of the stream
YieldLangFrom ==
    /\ pc = "lang_from"
    /\ out' = Yield(out, Tag("lang_from", pending))
    /\ pc' = "done"
    /\ pending' = None
    /\ last' = [kind |-> "lang_from"]
    /\ UNCHANGED <<n, src, Config, abbreviations, warnings>>

\* `abbreviations.update(self._mkabbrs(element))` for line 204
RECURSIVE RebuildUpdate(_, _)
RebuildUpdate(old, new) ==
    IF new = <<>> THEN old
    ELSE RebuildUpdate(DictSet(old, Head(new)[1], Head(new)[2]), Tail(new))

\* line 204: the table the loop goes on with
Rebuild(old, new) == new

\* lines 203-204
ParseAbbreviations ==
    \E block \in AbbrBlocks :
        /\ Consume("abbreviations", block)
        /\ abbreviations' = Rebuild(abbreviations, _mkabbrs(Build(<<>>, block), 1))
        /\ last' = [kind |-> "abbreviations"]
        /\ UNCHANGED <<pc, Config, out, warnings, pending>>

\* what lines 207-216 compute for an article element
Article(ar, abbrs, skip, newline) ==
    LET h == Build(<<>>, ar)
        text == _text(h, 1, abbrs, skip, newline)
    IN [kind |-> "text",
        element |-> ar,
        before |-> h,
        text |-> text,
        titles |-> MkTitles(text.heap, 1)]

\* lines 206-223
ParseArticle ==
    \E ar \in Articles :
        LET a == Article(ar, abbreviations, skip_article_title, remove_newline)
        IN /\ Consume("ar", ar)
           /\ last' = [kind |-> "ar"]
           /\ IF a.text.result = TypeError \/ a.titles.raised
              THEN /\ pc' = "failed"
                   /\ UNCHANGED <<out, warnings>>
              ELSE IF a.titles.titles # <<>>
              THEN /\ out' = Yield(out, Content(a.text.result, a.titles.titles,
                                                ARTICLE_CONTENT_TYPE))
                   /\ UNCHANGED <<pc, warnings>>
              ELSE /\ warnings' = warnings + 1
                   /\ UNCHANGED <<pc, out>>
           /\ UNCHANGED <<Config, abbreviations, pending>>

\* an end event whose tag none of the tests of lines 188-206 matches
ParseOther ==
    \E e \in Others :
        /\ Consume("other", e)
        /\ last' = [kind |-> "other"]
        /\ UNCHANGED <<pc, Config, abbreviations, out, warnings, pending>>

Next ==
    \/ ParseDescription
    \/ ParseFullName
    \/ YieldUri
    \/ ParseRoot
    \/ YieldLangFrom
    \/ ParseAbbreviations
    \/ ParseArticle
    \/ ParseOther

Spec == Init /\ [][Next]_vars

---------------------------------------------------------------------------
(* XDXF._text on its own: one call on an article element *)

InitText ==
    /\ pc = "call _text"
    /\ n = 0
    /\ skip_article_title \in BOOLEAN
    /\ remove_newline \in BOOLEAN
    /\ abbreviations \in TextTables
    /\ out = <<>>
    /\ src = <<>>
    /\ warnings = 0
    /\ pending \in TextArticles
    /\ last = [kind |-> "init"]

CallText ==
    /\ pc = "call _text"
    /\ last' = Article(pending, abbreviations, skip_article_title, remove_newline)
    /\ pc' = "returned"
    /\ UNCHANGED <<n, Config, abbreviations, out, src, warnings, pending>>

SpecText == InitText /\ [][CallText]_vars

---------------------------------------------------------------------------
(* the title expansion on its own: lines 208-216 on an article element *)

InitTitle ==
    /\ pc = "expand"
    /\ n = 0
    /\ skip_article_title = FALSE
    /\ remove_newline = FALSE
    /\ abbreviations = <<>>
    /\ out = <<>>
    /\ src = <<>>
    /\ warnings = 0
    /\ pending \in TitleArticles
    /\ last = [kind |-> "init"]

\* the variants of each title element, each with the combination it is for
Variants(h, element) ==
    LET ks == findall(h, element, "k")
    IN [i \in 1..Len(ks) |->
           LET n_opts == Len(findall(h, ks[i], "opt"))
               combs == AllCombs(n_opts, 0)
           IN [c \in 1..Len(combs) |->
                  [comb |-> Range(combs[c]),
                   title |-> _mktitle(h, ks[i], Range(combs[c]))]]]

ExpandTitles ==
    /\ pc = "expand"
    /\ LET h == Build(<<>>, pending)
       IN last' = [kind |-> "titles",
                   element |-> pending,
                   variants |-> Variants(h, 1),
                   titles |-> MkTitles(h, 1)]
    /\ pc' = "expanded"
    /\ UNCHANGED <<n, Config, abbreviations, out, src, warnings, pending>>

SpecTitle == InitTitle /\ [][ExpandTitles]_vars

---------------------------------------------------------------------------
(* what the properties below are stated in: the document, not the code *)

IsContent(item) == "keys" \in DOMAIN item

Contents(items) == SelectSeq(items, IsContent)

KChildren(t) == SelectSeq(t.children, LAMBDA c : c.tag = "k")

NOpts(k) == Len(SelectSeq(k.children, LAMBDA c : c.tag = "opt"))

RECURSIVE Pow2(_)
Pow2(m) == IF m = 0 THEN 1 ELSE 2 * Pow2(m - 1)

RECURSIVE Sum(_)
Sum(ns) == IF ns = <<>> THEN 0 ELSE Head(ns) + Sum(Tail(ns))

\* the number of opt children among the first i children of k
OptsBefore(k, i) == NOpts([k EXCEPT !.children = SubSeq(@, 1, i)])

\* the title of k for the chosen opt indices S: the leading text, then for
\* each child in document order the tail of a nu, and for the i-th opt its
\* text if i is in S, then its tail
ExpectedVariant(k, S) ==
    OrEmpty(k.text)
    \o Flatten([i \in 1..Len(k.children) |->
          LET c == k.children[i]
          IN CASE c.tag = "nu" -> OrEmpty(c.tail)
               [] c.tag = "opt" ->
                    (IF OptsBefore(k, i) - 1 \in S THEN OrEmpty(c.text) ELSE <<>>)
                    \o OrEmpty(c.tail)
               [] OTHER -> <<>>])

\* the events that were handled to the end: all, but the one that raised
Handled == IF pc = "failed" THEN SubSeq(src, 1, Len(src) - 1) ELSE src

\* the table built from the last abbreviations block before event j alone
TableAt(j) ==
    LET blocks == {i \in 1..(j - 1) : src[i].kind = "abbreviations"}
    IN IF blocks = {} THEN <<>>
       ELSE _mkabbrs(Build(<<>>, src[CHOOSE i \in blocks :
                                         \A b \in blocks : b <= i].element), 1)

\* the items a handled event yields, from the document alone
ItemsOf(j) ==
    LET e == src[j].element
    IN CASE src[j].kind = "description" -> <<Tag("copyright", OrEmpty(e.text))>>
         [] src[j].kind = "full_name" ->
              <<Tag("label", OrEmpty(e.text)),
                Tag("uri", quote(encode(OrEmpty(e.text))))>>
         [] src[j].kind = "xdxf" ->
              <<Tag("lang_to", DictGet(e.attrib, "lang_to", <<>>)),
                Tag("lang_from", DictGet(e.attrib, "lang_from", <<>>))>>
         [] src[j].kind = "ar" /\ KChildren(e) # <<>> ->
              <<[article |-> e]>>
         [] OTHER -> <<>>

\* a yielded item, with a Content reduced to the article it must come from
Shape(j, item) == IF IsContent(item) THEN [article |-> src[j].element] ELSE item

ExpectedItems == Flatten([j \in 1..Len(Handled) |-> ItemsOf(j)])

\* the event each expected item comes from
ExpectedSource ==
    Flatten([j \in 1..Len(Handled) |-> [i \in 1..Len(ItemsOf(j)) |-> j]])

Keyless(j) == src[j].kind = "ar" /\ KChildren(src[j].element) = <<>>

---------------------------------------------------------------------------
(* C1 *)

\* C1: an article with no k child yields no Content, logs exactly one
\* warning and the parser goes on with the stream; every Content yielded
\* has a non-empty keys list.
C1_KeylessArticleSkipped ==
    /\ \A i \in 1..Len(out) : IsContent(out[i]) => out[i].keys # <<>>
    /\ warnings = Cardinality({j \in 1..Len(src) : Keyless(j)})
    /\ Len(Contents(out)) <= Cardinality({j \in 1..Len(src) :
                                             src[j].kind = "ar" /\ ~Keyless(j)})
    /\ (src # <<>> /\ Keyless(Len(src))) => pc = "loop"

---------------------------------------------------------------------------
(* C2 *)

\* the keys of title element i of the article, as the expansion left them
KeysBlock(keys, ks, i) ==
    LET before == Sum([j \in 1..(i - 1) |-> Pow2(NOpts(ks[j]))])
    IN SubSeq(keys, before + 1, before + Pow2(NOpts(ks[i])))

---------------------------------------------------------------------------
(* C3 *)

---------------------------------------------------------------------------
(* C4 *)

\* C4: the items yielded are those of the handled elements, in document
\* order: the Tags of an element come before the Content of every later
\* article, a label Tag is followed at once by its uri Tag, and the Contents
\* come in the order of their articles.
C4_DocumentOrder ==
    LET items == ExpectedItems
        source == ExpectedSource
    IN /\ Len(out) <= Len(items)
       /\ \A i \in 1..Len(out) : Shape(source[i], out[i]) = items[i]
       /\ pc \in {"loop", "done", "failed"} => Len(out) = Len(items)
       /\ pc \in {"uri", "lang_from"} => Len(out) = Len(items) - 1

\* a finished run that yielded label, uri, a Content and the root's Tags
C4_Witness ==
    /\ pc = "done"
    /\ Len(out) = 5
    /\ ~IsContent(out[1]) /\ out[1].name = "label"
    /\ ~IsContent(out[2]) /\ out[2].name = "uri"
    /\ out[2].value = <<"F", "%20", "%C3", "%A9">>
    /\ IsContent(out[3])
    /\ ~IsContent(out[5]) /\ out[5].name = "lang_from"

---------------------------------------------------------------------------
(* C5 *)

\* the Content a handled article with k children yields, were it rendered
\* with the table of the last abbreviations block before it alone
ExpectedContents ==
    Flatten([j \in 1..Len(Handled) |->
        IF src[j].kind = "ar" /\ ~Keyless(j)
        THEN LET a == Article(src[j].element, TableAt(j), skip_article_title,
                              remove_newline)
             IN <<Content(a.text.result, a.titles.titles, ARTICLE_CONTENT_TYPE)>>
        ELSE <<>>])

\* C5: every article is rendered with the table built from the last
\* abbreviations block closed before it, and from that block alone: after
\* a second block no abr gets a title from a keyword only the first defined.
C5_TableReplaced ==
    /\ abbreviations = TableAt(Len(src) + 1)
    /\ Contents(out) = ExpectedContents

\* block, article, other block, same article: the first Content has the abr
\* n. expanded by the first block, the second has not, and has v. expanded
C5_Witness ==
    /\ Len(src) = 4
    /\ src[1].kind = "abbreviations" /\ src[3].kind = "abbreviations"
    /\ src[2].kind = "ar" /\ src[4] = src[2]
    /\ Len(Contents(out)) = 2
    /\ "noun" \in Range(Contents(out)[1].text)
    /\ "verb" \notin Range(Contents(out)[1].text)
    /\ "noun" \notin Range(Contents(out)[2].text)
    /\ "verb" \in Range(Contents(out)[2].text)

---------------------------------------------------------------------------
(* C6 *)

\* the v element of an abbreviation definition, or None
VOf(def) == IF SelectSeq(def.children, LAMBDA c : c.tag = "v") = <<>> THEN None
            ELSE Head(SelectSeq(def.children, LAMBDA c : c.tag = "v")).text

\* C6: after an abbreviations block, the table maps every key of every
\* definition whose v has text to that text, and holds no key of a
\* definition with no v or an empty v.
C6_TableBuilt ==
    (src # <<>> /\ src[Len(src)].kind = "abbreviations") =>
        LET block == src[Len(src)].element
        IN \A i \in 1..Len(block.children) :
              LET def == block.children[i]
              IN \A k \in Range(KChildren(def)) :
                    IF Truthy(VOf(def))
                    THEN /\ DictHas(abbreviations, k.text)
                         /\ DictGet(abbreviations, k.text, None) = VOf(def)
                    ELSE ~DictHas(abbreviations, k.text)

---------------------------------------------------------------------------
(* C7 *)

\* C7: _text leaves the article element it is given as it was, whatever
\* skip_article_title is, so the keys computed after it are those the
\* untouched element gives.
C7_OriginalUnchanged ==
    last.kind = "text" =>
        /\ SubSeq(last.text.heap, 1, Len(last.before)) = last.before
        /\ ToTree(last.text.heap, 1) = last.element
        /\ last.titles = MkTitles(last.before, 1)

\* a rendering with title stripping of an article with a k child: the copy
\* lost the k and became a div, the article still gives its keys
C7_Witness ==
    /\ last.kind = "text"
    /\ skip_article_title
    /\ KChildren(last.element) # <<>>
    /\ last.text.element # 1
    /\ last.text.heap[last.text.element].tag = "div"
    /\ Len(last.text.heap[last.text.element].children)
          < Len(last.element.children)
    /\ ~last.titles.raised /\ last.titles.titles # <<>>

---------------------------------------------------------------------------
(* C8 *)

\* C8: _text dispatches a handler exactly once for every element of the
\* copy, the root first and then its descendants in document order.
C8_OnceEach ==
    last.kind = "text" =>
        last.text.calls = iter(last.text.heap, last.text.element)

---------------------------------------------------------------------------
(* C9 *)

\* the tails of the k children of the article, concatenated
TailsOfK(t) ==
    Flatten([i \in 1..Len(KChildren(t)) |-> OrEmpty(KChildren(t)[i].tail)])

\* the copy of the article as the handlers find it
Stripped == ToTree(last.text.stripped, last.text.element)

NoKLeft ==
    /\ KChildren(Stripped) = <<>>
    /\ Stripped.children
          = SelectSeq(last.element.children, LAMBDA c : c.tag # "k")
    /\ \A i \in 1..Len(last.text.heap[last.text.element].children) :
          last.text.heap[last.text.heap[last.text.element].children[i]].attrib
              # << <<"class", <<"k">> >> >>

\* C9 as stated: with skip_article_title the handlers find the copy without
\* its k children, its text being their tails followed by its own text, no
\* character lost.
C9_TailsKept ==
    (last.kind = "text" /\ skip_article_title) =>
        /\ NoKLeft
        /\ Stripped.text = TailsOfK(last.element) \o OrEmpty(last.element.text)

\* C9 as amended: the tails of the k children, concatenated and with the
\* leading whitespace of the whole removed, followed by the article's own
\* text; no k child is left.
C9_TailsStripped ==
    (last.kind = "text" /\ skip_article_title) =>
        /\ NoKLeft
        /\ Stripped.text
              = lstrip(TailsOfK(last.element)) \o OrEmpty(last.element.text)

\* two k children, the first tail starting with whitespace, before the text r
C9_Witness ==
    /\ last.kind = "text"
    /\ skip_article_title
    /\ Len(KChildren(last.element)) = 2
    /\ TailsOfK(last.element) = <<"\n", " ", "x", "y", " ">>
    /\ Stripped.text = <<"x", "y", " ", "r">>
    /\ Stripped.children = <<>>

---------------------------------------------------------------------------
(* C10 *)

\* C10: every key of every Content yielded is a string, never None.
C10_KeysAreStrings ==
    \A i \in 1..Len(out) :
        IsContent(out[i]) =>
            \A p \in 1..Len(out[i].keys) : out[i].keys[p] # None

====
